---- MODULE Spec2Model ----
(***************************************************************************)
(* Model of the in-memory contact directory of main.py: Field / Name /     *)
(* Phone / Record / AddressBook.  Strings are sequences of one-character   *)
(* strings.  Record objects live in a heap (recs) and are referred to by   *)
(* their index, so that a Record added to the book is still the object the *)
(* caller mutates.                                                         *)
(***************************************************************************)
EXTENDS Integers, Sequences, FiniteSets, TLC

VARIABLES recs, book, value, last

vars == <<recs, book, value, last>>

-----------------------------------------------------------------------------
(* Bounds *)

\* number of Record objects the caller constructs
MaxRecords == 2
\* number of Phone objects alive in all records together (Spec)
MaxBookPhones == 1
\* number of Phone objects of the one record of SpecRecord
MaxPhones == 3
\* length of the candidate strings given to Phone() in SpecPhone
MaxStrLen == 11

-----------------------------------------------------------------------------
(* Characters and input strings *)

\* the ASCII decimal digits (\d restricted to the ASCII alphabet)
Digits == {"0", "1", "2", "3", "4", "5", "6", "7", "8", "9"}

\* the characters str.strip() removes, as far as the alphabet has them
Whitespace == {" ", "\t", "\n", "\r", "\f"}

\* the repetition count of \d{10}
PhoneLen == 10

\* alphabet of the candidate phone strings: a digit, a non-digit, newline
PhoneAlphabet == {"7", "a", "\n"}

P1 == <<"1", "2", "3", "4", "5", "6", "7", "8", "9", "0">>
P2 == <<"0", "9", "8", "7", "6", "5", "4", "3", "2", "1">>
PShort == <<"1", "2", "3", "4", "5">>
PNewline == <<"1", "2", "3", "4", "5", "6", "7", "8", "9", "0", "\n">>

\* phone arguments of the Record operations in SpecRecord
PhoneInputs == {P1, P2, PShort, PNewline}

\* phone arguments of the Record operations in Spec
BookPhoneInputs == {P1, PShort}

NAl == <<"A", "l">>
NAlPadded == <<" ", "A", "l", " ">>
NBo == <<"B", "o">>
NBoPadded == <<"\t", "B", "o", "\n">>

\* name arguments of Record() and of the AddressBook operations
NameInputs == {NAl, NAlPadded, NBo, NBoPadded}

\* Python's None as a return value (record ids and list positions are >= 1)
None == 0

NoError == "none"
InvalidPhoneFormat == "ValueError: Phone number must be 10 digits"
PhoneNotFound == "ValueError: Phone number not found"
RecordNotFound == "ValueError: Record not found"

-----------------------------------------------------------------------------
(* Pure functions *)

\* str.lstrip(): drop leading whitespace
RECURSIVE lstrip(_)
lstrip(s) ==
    IF s # <<>> /\ Head(s) \in Whitespace THEN lstrip(Tail(s)) ELSE s

\* str.rstrip(): drop trailing whitespace
RECURSIVE rstrip(_)
rstrip(s) ==
    IF s # <<>> /\ s[Len(s)] \in Whitespace
    THEN rstrip(SubSeq(s, 1, Len(s) - 1))
    ELSE s

\* str.strip()
strip(s) == rstrip(lstrip(s))

\* "$" without re.MULTILINE: at the end of the string, or just before a
\* newline that is the last character
AtDollar(s, pos) ==
    \/ pos = Len(s) + 1
    \/ pos = Len(s) /\ s[pos] = "\n"

\* re.match(r"^\d{10}$", value): anchored at position 1, ten digits, then $
re_match(s) ==
    /\ Len(s) >= PhoneLen
    /\ \A i \in 1..PhoneLen : s[i] \in Digits
    /\ AtDollar(s, PhoneLen + 1)

\* Field.__str__: str(self.value) of a str value
Field_str(v) == v

\* Phone.__init__: raise unless the pattern matches, else store the value
Phone(v) ==
    IF ~re_match(v)
    THEN [exc |-> InvalidPhoneFormat, value |-> <<>>]
    ELSE [exc |-> NoError, value |-> v]

\* the loop of edit_phone / find_phone: position of the first match, or None
RECURSIVE FirstMatch(_, _, _)
FirstMatch(phones, phone, i) ==
    IF i > Len(phones) THEN None
    ELSE IF phones[i] = phone THEN i
    ELSE FirstMatch(phones, phone, i + 1)

\* faulty variant of Record: the name is stored untrimmed
Record_nostrip(name) == [name |-> name, phones |-> <<>>]

\* Record.__init__
Record(name) == [name |-> strip(name), phones |-> <<>>]

\* faulty variant of add_phone: a value already in the list is not added
add_phone_unique(phones, phone) ==
    LET p == Phone(phone) IN
    IF p.exc # NoError
    THEN [exc |-> p.exc, phones |-> phones]
    ELSE IF FirstMatch(phones, phone, 1) # None
    THEN [exc |-> NoError, phones |-> phones]
    ELSE [exc |-> NoError, phones |-> Append(phones, p.value)]

\* faulty variant of add_phone: the value is appended before it is validated
add_phone_append_first(phones, phone) ==
    [exc |-> Phone(phone).exc, phones |-> Append(phones, phone)]

\* Record.add_phone: Phone(phone) is evaluated before the append
add_phone(phones, phone) ==
    LET p == Phone(phone) IN
    IF p.exc # NoError
    THEN [exc |-> p.exc, phones |-> phones]
    ELSE [exc |-> NoError, phones |-> Append(phones, p.value)]

\* faulty variant of remove_phone: only the first match is removed
remove_phone_first(phones, phone) ==
    LET i == FirstMatch(phones, phone, 1) IN
    [exc |-> NoError,
     phones |-> IF i = None THEN phones
                ELSE SubSeq(phones, 1, i - 1) \o SubSeq(phones, i + 1, Len(phones))]

\* Record.remove_phone: the list comprehension
remove_phone(phones, phone) ==
    [exc |-> NoError, phones |-> SelectSeq(phones, LAMBDA p : p # phone)]

\* faulty variant of edit_phone: every match is assigned
edit_phone_all(phones, old_phone, new_phone) ==
    IF FirstMatch(phones, old_phone, 1) = None
    THEN [exc |-> PhoneNotFound, phones |-> phones]
    ELSE [exc |-> NoError,
          phones |-> [i \in 1..Len(phones) |->
                         IF phones[i] = old_phone THEN new_phone ELSE phones[i]]]

\* Record.edit_phone: assign the first match, no validation of new_phone
edit_phone(phones, old_phone, new_phone) ==
    LET i == FirstMatch(phones, old_phone, 1) IN
    IF i = None
    THEN [exc |-> PhoneNotFound, phones |-> phones]
    ELSE [exc |-> NoError, phones |-> [phones EXCEPT ![i] = new_phone]]

\* Record.find_phone: the first matching Phone object (its position) or None
find_phone(phones, phone) == FirstMatch(phones, phone, 1)

\* "; ".join(p.value for p in self.phones)
RECURSIVE join(_)
join(phones) ==
    IF phones = <<>> THEN <<>>
    ELSE IF Len(phones) = 1 THEN Field_str(phones[1])
    ELSE Field_str(phones[1]) \o <<";", " ">> \o join(Tail(phones))

\* Record.__str__
Record_str(rec) ==
    <<"C", "o", "n", "t", "a", "c", "t", " ", "n", "a", "m", "e", ":", " ">>
    \o rec.name
    \o <<",", " ", "p", "h", "o", "n", "e", "s", ":", " ">>
    \o join(rec.phones)

\* faulty variant of add_record: an existing entry is kept (setdefault)
add_record_keep(data, key, r) ==
    [k \in DOMAIN data \cup {key} |-> IF k \in DOMAIN data THEN data[k] ELSE r]

\* AddressBook.add_record: self.data[record.name.value] = record
add_record(data, key, r) ==
    [k \in DOMAIN data \cup {key} |-> IF k = key THEN r ELSE data[k]]

\* faulty variant of find: the name is looked up untrimmed
find_nostrip(data, name) ==
    IF name \in DOMAIN data THEN data[name] ELSE None

\* AddressBook.find: self.data.get(name.strip())
find(data, name) ==
    IF strip(name) \in DOMAIN data THEN data[strip(name)] ELSE None

\* faulty variant of delete: the name is trimmed like in find
delete_stripped(data, name) ==
    IF strip(name) \in DOMAIN data
    THEN [exc |-> NoError,
          data |-> [k \in DOMAIN data \ {strip(name)} |-> data[k]]]
    ELSE [exc |-> RecordNotFound, data |-> data]

\* AddressBook.delete: del self.data[name] if name is a key, else raise
delete(data, name) ==
    IF name \in DOMAIN data
    THEN [exc |-> NoError, data |-> [k \in DOMAIN data \ {name} |-> data[k]]]
    ELSE [exc |-> RecordNotFound, data |-> data]

\* number of Phone objects in the heap
RECURSIVE TotalPhones(_)
TotalPhones(rs) ==
    IF rs = <<>> THEN 0 ELSE Len(Head(rs).phones) + TotalPhones(Tail(rs))

-----------------------------------------------------------------------------
(* State machine *)

Init ==
    /\ recs = <<>>
    /\ book = <<>>
    /\ value = <<>>
    /\ last = [op |-> "init", args |-> <<>>, exc |-> NoError, ret |-> None]

\* r = Record(name)
NewRecord(name) ==
    /\ Len(recs) < MaxRecords
    /\ recs' = Append(recs, Record(name))
    /\ last' = [op |-> "Record", args |-> <<name>>, exc |-> NoError,
                ret |-> Len(recs) + 1]
    /\ UNCHANGED <<book, value>>

\* recs[r].add_phone(phone); cap bounds the Phone objects alive
AddPhone(r, phone, cap) ==
    LET res == add_phone(recs[r].phones, phone) IN
    /\ recs' = [recs EXCEPT ![r].phones = res.phones]
    /\ TotalPhones(recs') <= cap
    /\ last' = [op |-> "add_phone", args |-> <<r, phone>>, exc |-> res.exc,
                ret |-> None]
    /\ UNCHANGED <<book, value>>

\* recs[r].remove_phone(phone)
RemovePhone(r, phone) ==
    LET res == remove_phone(recs[r].phones, phone) IN
    /\ recs' = [recs EXCEPT ![r].phones = res.phones]
    /\ last' = [op |-> "remove_phone", args |-> <<r, phone>>, exc |-> res.exc,
                ret |-> None]
    /\ UNCHANGED <<book, value>>

\* recs[r].edit_phone(old_phone, new_phone)
EditPhone(r, old_phone, new_phone) ==
    LET res == edit_phone(recs[r].phones, old_phone, new_phone) IN
    /\ recs' = [recs EXCEPT ![r].phones = res.phones]
    /\ last' = [op |-> "edit_phone", args |-> <<r, old_phone, new_phone>>,
                exc |-> res.exc, ret |-> None]
    /\ UNCHANGED <<book, value>>

\* recs[r].find_phone(phone)
FindPhone(r, phone) ==
    /\ last' = [op |-> "find_phone", args |-> <<r, phone>>, exc |-> NoError,
                ret |-> find_phone(recs[r].phones, phone)]
    /\ UNCHANGED <<recs, book, value>>

\* book.add_record(recs[r])
AddRecord(r) ==
    /\ book' = add_record(book, recs[r].name, r)
    /\ last' = [op |-> "add_record", args |-> <<r>>, exc |-> NoError, ret |-> None]
    /\ UNCHANGED <<recs, value>>

\* book.find(name)
Find(name) ==
    /\ last' = [op |-> "find", args |-> <<name>>, exc |-> NoError,
                ret |-> find(book, name)]
    /\ UNCHANGED <<recs, book, value>>

\* book.delete(name)
Delete(name) ==
    LET res == delete(book, name) IN
    /\ book' = res.data
    /\ last' = [op |-> "delete", args |-> <<name>>, exc |-> res.exc, ret |-> None]
    /\ UNCHANGED <<recs, value>>

Next ==
    \/ \E name \in NameInputs : NewRecord(name)
    \/ \E r \in 1..Len(recs), phone \in BookPhoneInputs : AddPhone(r, phone, MaxBookPhones)
    \/ \E r \in 1..Len(recs), phone \in BookPhoneInputs : RemovePhone(r, phone)
    \/ \E r \in 1..Len(recs), old_phone \in BookPhoneInputs, new_phone \in BookPhoneInputs :
          EditPhone(r, old_phone, new_phone)
    \/ \E r \in 1..Len(recs), phone \in BookPhoneInputs : FindPhone(r, phone)
    \/ \E r \in 1..Len(recs) : AddRecord(r)
    \/ \E name \in NameInputs : Find(name)
    \/ \E name \in NameInputs : Delete(name)

Spec == Init /\ [][Next]_vars

-----------------------------------------------------------------------------
(* The phone operations on one Record *)

InitRecord ==
    \E name \in NameInputs :
        /\ recs = <<Record(name)>>
        /\ book = <<>>
        /\ value = <<>>
        /\ last = [op |-> "Record", args |-> <<name>>, exc |-> NoError, ret |-> 1]

NextRecord ==
    \/ \E phone \in PhoneInputs : AddPhone(1, phone, MaxPhones)
    \/ \E phone \in PhoneInputs : RemovePhone(1, phone)
    \/ \E old_phone \in PhoneInputs, new_phone \in PhoneInputs :
          EditPhone(1, old_phone, new_phone)
    \/ \E phone \in PhoneInputs : FindPhone(1, phone)

SpecRecord == InitRecord /\ [][NextRecord]_vars

-----------------------------------------------------------------------------
(* Phone() on every string over PhoneAlphabet of length <= MaxStrLen *)

\* the caller extends the candidate string by one character
Type(c) ==
    /\ last.op = "init"
    /\ Len(value) < MaxStrLen
    /\ value' = Append(value, c)
    /\ UNCHANGED <<recs, book, last>>

\* Phone(value); ret is 1 when an object was constructed
NewPhone ==
    LET res == Phone(value) IN
    /\ last.op = "init"
    /\ last' = [op |-> "Phone", args |-> <<value>>, exc |-> res.exc,
                ret |-> IF res.exc = NoError THEN 1 ELSE None,
                str |-> IF res.exc = NoError THEN Field_str(res.value) ELSE <<>>]
    /\ UNCHANGED <<recs, book, value>>

NextPhone ==
    \/ \E c \in PhoneAlphabet : Type(c)
    \/ NewPhone

SpecPhone == Init /\ [][NextPhone]_vars

-----------------------------------------------------------------------------
(* Vocabulary of the properties *)

\* s is exactly ten ASCII digits and nothing else
TenDigits(s) == Len(s) = 10 /\ \A i \in 1..Len(s) : s[i] \in Digits

\* s has no leading and no trailing whitespace
Trimmed(s) == s = <<>> \/ (s[1] \notin Whitespace /\ s[Len(s)] \notin Whitespace)

\* t is s with its leading and trailing whitespace removed
IsTrimOf(t, s) ==
    /\ Trimmed(t)
    /\ \E i \in 0..Len(s) : \E j \in i..Len(s) :
          /\ t = SubSeq(s, i + 1, j)
          /\ \A k \in (1..i) \cup ((j + 1)..Len(s)) : s[k] \in Whitespace

\* the positions of phones whose value is not p
Kept(phones, p) == {i \in 1..Len(phones) : phones[i] # p}

\* the positions of phones whose value is p
Matches(phones, p) == {i \in 1..Len(phones) : phones[i] = p}

\* the record objects other than r are as they were
OtherRecsUnchanged(r) ==
    /\ Len(recs') = Len(recs)
    /\ \A x \in 1..Len(recs) : x # r => recs'[x] = recs[x]

-----------------------------------------------------------------------------
(* C1: Phone(p) succeeds, and renders as p, if and only if p is exactly ten *)
(* ASCII digits; every other p, a ten-digit string followed by a newline   *)
(* included, fails with InvalidPhoneFormat.                                *)
C1_PhoneIffTenDigits ==
    last.op = "Phone" =>
        /\ (last.exc = NoError /\ last.str = value) <=> TenDigits(value)
        /\ ~TenDigits(value) => last.exc = InvalidPhoneFormat

(* C2: in every reachable state every Phone entry of every Record has a    *)
(* value of exactly ten decimal digits.                                     *)
C2_AllPhonesTenDigits ==
    \A r \in 1..Len(recs) : \A i \in 1..Len(recs[r].phones) :
        TenDigits(recs[r].phones[i])

(* C3: the book holds at most one Record per name value; add_record(r)     *)
(* never raises, afterwards the entry for r's name is r (lookups show r's   *)
(* phones), the number of entries grows by 1 if the name was absent and by  *)
(* 0 if it was present, and the entries under other names are unchanged.    *)
C3_OneRecordPerName ==
    \A k1 \in DOMAIN book : \A k2 \in DOMAIN book :
        recs[book[k1]].name = recs[book[k2]].name => k1 = k2

C3_AddRecordStep ==
    \A r \in 1..Len(recs) : AddRecord(r) =>
        LET n == recs[r].name IN
        /\ last'.exc = NoError
        /\ n \in DOMAIN book' /\ book'[n] = r
        /\ find(book', n) = r
        /\ recs'[find(book', n)].phones = recs[r].phones
        /\ Cardinality(DOMAIN book') =
              Cardinality(DOMAIN book) + (IF n \in DOMAIN book THEN 0 ELSE 1)
        /\ \A k \in DOMAIN book \ {n} : k \in DOMAIN book' /\ book'[k] = book[k]
        /\ DOMAIN book' \subseteq DOMAIN book \cup {n}
        /\ recs' = recs

C3_AddRecordOverwrites == []C3_OneRecordPerName /\ [][C3_AddRecordStep]_vars

\* add_record(r2) replaced r1 of the same name and other phones
C3_Witness ==
    /\ last.op = "add_record"
    /\ Len(recs) >= 2
    /\ \E r1 \in 1..Len(recs) :
          LET r2 == last.args[1] IN
          /\ r1 # r2
          /\ recs[r1].name = recs[r2].name
          /\ recs[r1].phones # recs[r2].phones
          /\ book[recs[r2].name] = r2
          /\ Cardinality(DOMAIN book) = 1

(* C4: after add_record(Record(n)), with no later add_record or delete of  *)
(* that name, find(q) returns that Record whenever q trimmed equals n       *)
(* trimmed; find(q) returns an absent result, never an error, when no key   *)
(* equals q trimmed; find never changes the book.                           *)
\* Record(n) carries n trimmed as its name
C4_RecordStep ==
    \A n \in NameInputs : NewRecord(n) =>
        /\ IsTrimOf(recs'[Len(recs')].name, n)
        /\ last'.ret = Len(recs')

\* add_record(r) files r under its name; a name never changes; an entry
\* stays as it is unless add_record or delete is called
C4_EntryStep ==
    /\ \A r \in 1..Len(recs) : recs'[r].name = recs[r].name
    /\ \A r \in 1..Len(recs) : AddRecord(r) => book'[recs[r].name] = r
    /\ \A k \in DOMAIN book :
          last'.op \notin {"add_record", "delete"} =>
              k \in DOMAIN book' /\ book'[k] = book[k]

\* find(q) looks q up trimmed, and changes nothing
C4_FindStep ==
    \A q \in NameInputs : Find(q) =>
        /\ last'.exc = NoError
        /\ \A k \in DOMAIN book : IsTrimOf(k, q) => last'.ret = book[k]
        /\ (~\E k \in DOMAIN book : IsTrimOf(k, q)) => last'.ret = None
        /\ book' = book
        /\ recs' = recs

C4_FindTrimmed == [][C4_RecordStep /\ C4_EntryStep /\ C4_FindStep]_vars

\* find(" Al ") returned the Record filed under "Al"
C4_Witness ==
    /\ last.op = "find"
    /\ last.args = <<NAlPadded>>
    /\ last.ret # None
    /\ recs[last.ret].name = NAl
    /\ book[NAl] = last.ret

(* C5: delete(name) compares name untrimmed with the keys: if a key equals *)
(* name, that entry and only that entry is removed and a following          *)
(* find(name) returns absent; otherwise it fails with RecordNotFound and    *)
(* the book is unchanged.                                                   *)
C5_DeleteStep ==
    \A q \in NameInputs : Delete(q) =>
        IF q \in DOMAIN book
        THEN /\ last'.exc = NoError
             /\ DOMAIN book' = DOMAIN book \ {q}
             /\ \A k \in DOMAIN book' : book'[k] = book[k]
             /\ find(book', q) = None
             /\ recs' = recs
        ELSE /\ last'.exc = RecordNotFound
             /\ book' = book
             /\ recs' = recs

C5_DeleteExactKey == [][C5_DeleteStep]_vars

\* delete(" Al ") failed although the key "Al" is in the book
C5_Witness ==
    /\ last.op = "delete"
    /\ last.args = <<NAlPadded>>
    /\ last.exc = RecordNotFound
    /\ NAl \in DOMAIN book

(* C6: if some entry equals old_phone, edit_phone(old_phone, new_phone)    *)
(* sets the first such entry to new_phone and leaves the length, the        *)
(* position of that entry and every other entry (later duplicates of        *)
(* old_phone included) unchanged; if none does it fails with PhoneNotFound. *)
C6_EditStep ==
    \A old_phone \in PhoneInputs : \A new_phone \in PhoneInputs :
        EditPhone(1, old_phone, new_phone) =>
            LET before == recs[1].phones
                after == recs'[1].phones
                M == Matches(before, old_phone)
            IN  IF M # {}
                THEN LET first == CHOOSE i \in M : \A j \in M : i <= j IN
                     /\ last'.exc = NoError
                     /\ Len(after) = Len(before)
                     /\ after[first] = new_phone
                     /\ \A i \in 1..Len(before) :
                           i # first => after[i] = before[i]
                ELSE last'.exc = PhoneNotFound

C6_EditFirstMatch == [][C6_EditStep]_vars

\* edit_phone(old, new) succeeded and a later duplicate of old is still there
C6_Witness ==
    /\ last.op = "edit_phone"
    /\ last.exc = NoError
    /\ last.args[2] # last.args[3]
    /\ \E i \in 1..Len(recs[1].phones) : \E j \in 1..Len(recs[1].phones) :
          /\ i < j
          /\ recs[1].phones[i] = last.args[3]
          /\ recs[1].phones[j] = last.args[2]

(* C7: remove_phone(p) never raises and leaves the sequence without the    *)
(* entries equal to p, the remaining entries in their original relative     *)
(* order: a no-op when p is absent, every duplicate of p removed, and a     *)
(* record holding only p is left with an empty sequence.                    *)
C7_RemoveStep ==
    \A p \in PhoneInputs : RemovePhone(1, p) =>
        LET before == recs[1].phones
            after == recs'[1].phones
            K == Kept(before, p)
        IN  /\ last'.exc = NoError
            /\ Len(after) = Cardinality(K)
            /\ \A i \in K : after[Cardinality({j \in K : j <= i})] = before[i]
            /\ Matches(after, p) = {}
            /\ Matches(before, p) = {} => after = before
            /\ before = <<p>> => after = <<>>

C7_RemoveAllMatches == [][C7_RemoveStep]_vars

\* remove_phone(p) left two different entries, neither of them p
C7_Witness ==
    /\ last.op = "remove_phone"
    /\ last.exc = NoError
    /\ Len(recs[1].phones) = 2
    /\ recs[1].phones[1] # recs[1].phones[2]
    /\ Matches(recs[1].phones, last.args[2]) = {}

(* C8: for a valid ten-digit p, add_phone(p) appends one entry p at the    *)
(* end: the length grows by 1, the earlier entries keep value and position, *)
(* a p equal to an existing entry is still appended, and the rendered       *)
(* phone list stays in insertion order.                                     *)
C8_AddStep ==
    \A p \in PhoneInputs : (TenDigits(p) /\ AddPhone(1, p, MaxPhones)) =>
        LET before == recs[1].phones
            after == recs'[1].phones
        IN  /\ last'.exc = NoError
            /\ Len(after) = Len(before) + 1
            /\ after[Len(after)] = p
            /\ \A i \in 1..Len(before) : after[i] = before[i]
            /\ Record_str(recs'[1]) =
                  Record_str(recs[1])
                  \o (IF before = <<>> THEN <<>> ELSE <<";", " ">>) \o p

C8_AddAppends == [][C8_AddStep]_vars

\* add_phone(p) appended p to a record that already held p
C8_Witness ==
    /\ last.op = "add_phone"
    /\ last.exc = NoError
    /\ TenDigits(last.args[2])
    /\ LET ph == recs[1].phones IN
       /\ Len(ph) >= 2
       /\ ph[Len(ph)] = last.args[2]
       /\ \E i \in 1..(Len(ph) - 1) : ph[i] = last.args[2]

(* C9: every operation that raises (add_phone with an invalid phone,       *)
(* edit_phone with no match, delete with no exact key) leaves every         *)
(* Record's phone sequence and the book as they were.                       *)
C9_RaiseStep ==
    last'.exc # NoError =>
        /\ recs' = recs
        /\ book' = book
        /\ last'.op = "add_phone" => last'.exc = InvalidPhoneFormat
        /\ last'.op = "edit_phone" => last'.exc = PhoneNotFound
        /\ last'.op = "delete" => last'.exc = RecordNotFound

C9_RaiseLeavesState == [][C9_RaiseStep]_vars

\* add_phone raised on a record that holds a phone and is in the book
C9_Witness ==
    /\ last.op = "add_phone"
    /\ last.exc = InvalidPhoneFormat
    /\ recs[last.args[1]].phones # <<>>
    /\ \E k \in DOMAIN book : book[k] = last.args[1]

(* C10: every key k of the book maps to a Record whose name is k, and k    *)
(* has no leading or trailing whitespace; so delete(q) succeeds exactly     *)
(* when q is trimmed and find(q) returns a Record, and a q with surrounding *)
(* whitespace that find(q) resolves is never deleted by delete(q).          *)
C10_KeysAreTrimmedNames ==
    \A k \in DOMAIN book : recs[book[k]].name = k /\ Trimmed(k)

C10_DeleteStep ==
    \A q \in NameInputs : Delete(q) =>
        /\ last'.exc = NoError <=> (Trimmed(q) /\ find(book, q) # None)
        /\ (~Trimmed(q) /\ find(book, q) # None) =>
              (last'.exc = RecordNotFound /\ find(book', q) = find(book, q))

C10_KeyInvariant == []C10_KeysAreTrimmedNames /\ [][C10_DeleteStep]_vars

\* delete("\tBo\n") failed although find("\tBo\n") returns a Record
C10_Witness ==
    /\ last.op = "delete"
    /\ last.args = <<NBoPadded>>
    /\ last.exc = RecordNotFound
    /\ find(book, NBoPadded) # None
    /\ recs[find(book, NBoPadded)].name = NBo

====
